---- MODULE Spec2Model ----
(***************************************************************************)
(* Model of target_clickhouse: the engine registry (engine_class.py) and   *)
(* ClickhouseConnector (connectors.py): to_sql_type, create_empty_table    *)
(* and get_column_alter_ddl, together with the database the connector      *)
(* talks to through its SQLAlchemy engine.                                 *)
(*                                                                         *)
(* Python values: None is the string "None"; an optional list is a record  *)
(* [is_none, list]; a dict is a function on its keys; a dotted name is the *)
(* sequence of its dot-separated parts.                                    *)
(***************************************************************************)
EXTENDS Integers, Sequences, FiniteSets, TLC

VARIABLES
    config,   \* self.config["table_name"]: fixed when the connector is constructed
    tables,   \* the tables that exist in the database behind self._engine
    pc,       \* "idle": no call in progress; "returned": a call has just returned
    call,     \* the arguments of the last call
    ret       \* what the last call did and how it ended

vars == <<config, tables, pc, call, ret>>

None == "None"

(***************************************************************************)
(* Bounds and input domains.                                               *)
(***************************************************************************)
MaxProps == 2

PropertyNames == {"id", "name", "amount"}

\* What th.to_sql_type returns for a property: sqlalchemy.types.DECIMAL for a
\* JSON "number", INTEGER, VARCHAR, ...; "mysql.DECIMAL" stands for an instance of a
\* subclass of sqlalchemy.types.DECIMAL (isinstance holds, type equality does not).
GenericTypes == {"DECIMAL", "mysql.DECIMAL", "VARCHAR"}

PyNoneList == [is_none |-> TRUE, list |-> <<>>]
PyList(l) == [is_none |-> FALSE, list |-> l]

ConfigTableNames == {None, "", "pinned"}
FullTableNames == {<<"events">>, <<"db", "users">>}
PrimaryKeyArgs == {PyNoneList, PyList(<<"id">>), PyList(<<"name", "id">>)}
TablePaths == {None, "/clickhouse/tables/{uuid}/{shard}"}
ReplicaNames == {None, "replica1"}
ClusterNames == {None, "cluster1"}

AlterTableNames == {"t", "db.t", "my table"}
AlterColumnNames == {"c", "a-b"}
AlterColumnTypes == {"Float64", "FLOAT"}

\* The mro of a type below its own class (sqlalchemy.dialects.mysql.DECIMAL
\* derives from sqlalchemy.types.DECIMAL).
Mro(t) == IF t = "mysql.DECIMAL" THEN {"mysql.DECIMAL", "DECIMAL"} ELSE {t}

Properties ==
    UNION {[1..n -> [name : PropertyNames, generic : GenericTypes]] : n \in 0..MaxProps}

\* A dict has each key once.
UniqueKeys(props) ==
    \A i, j \in 1..Len(props) : props[i].name = props[j].name => i = j

Schemas ==
    {[has_properties |-> FALSE, properties |-> <<>>]}
    \cup {[has_properties |-> TRUE, properties |-> p] : p \in {q \in Properties : UniqueKeys(q)}}

(***************************************************************************)
(* engine_class.py                                                         *)
(***************************************************************************)
ENGINE_MAPPING ==
    [ MergeTree |-> "engines.MergeTree",
      ReplacingMergeTree |-> "engines.ReplacingMergeTree",
      SummingMergeTree |-> "engines.SummingMergeTree",
      CollapsingMergeTree |-> "engines.CollapsingMergeTree",
      VersionedCollapsingMergeTree |-> "engines.VersionedCollapsingMergeTree",
      AggregatingMergeTree |-> "engines.AggregatingMergeTree",
      GraphiteMergeTree |-> "engines.GraphiteMergeTree",
      ReplicatedMergeTree |-> "engines.ReplicatedMergeTree",
      ReplicatedSummingMergeTree |-> "engines.ReplicatedSummingMergeTree",
      ReplicatedCollapsingMergeTree |-> "engines.ReplicatedCollapsingMergeTree",
      ReplicatedReplacingMergeTree |-> "engines.ReplicatedReplacingMergeTree",
      ReplicatedAggregatingMergeTree |-> "engines.ReplicatedAggregatingMergeTree",
      ReplicatedVersionedCollapsingMergeTree |->
          "engines.ReplicatedVersionedCollapsingMergeTree" ]

get_engine_class_any(engine_type) ==
    IF engine_type \in DOMAIN ENGINE_MAPPING THEN ENGINE_MAPPING[engine_type]
    ELSE ENGINE_MAPPING["MergeTree"]

\* dict.get without a default: the value, or None for a missing key.
get_engine_class(engine_type) ==
    IF engine_type \in DOMAIN ENGINE_MAPPING THEN ENGINE_MAPPING[engine_type] ELSE None

\* Engine names a caller may pass: the registry's names, a different-case spelling
\* of one of them, and an engine ClickHouse has but the registry does not.
EngineTypes == DOMAIN ENGINE_MAPPING \cup {"mergetree", "Log"}

(***************************************************************************)
(* connectors.py: to_sql_type                                              *)
(***************************************************************************)
to_sql_type_isinstance(generic) ==
    IF "DECIMAL" \in Mro(generic) THEN "FLOAT" ELSE generic

\* generic is th.to_sql_type(jsonschema_type); type(sql_type) == DECIMAL compares
\* the class itself.
to_sql_type(generic) ==
    IF generic = "DECIMAL" THEN "FLOAT" ELSE generic

(***************************************************************************)
(* connectors.py: the steps of create_empty_table                          *)
(***************************************************************************)
\* Python truthiness of an optional string.
Truthy(s) == s \notin {None, ""}

\* SQLConnector.parse_full_table_name: the table name is the last dotted part.
parse_full_table_name(full_table_name) == full_table_name[Len(full_table_name)]

table_name_parsed_only(cfg_table_name, full_table_name) ==
    parse_full_table_name(full_table_name)

effective_table_name(cfg_table_name, full_table_name) ==
    IF Truthy(cfg_table_name) THEN cfg_table_name
    ELSE parse_full_table_name(full_table_name)

\* primary_keys = primary_keys or []
effective_primary_keys(primary_keys) ==
    IF primary_keys.is_none \/ primary_keys.list = <<>> THEN <<>> ELSE primary_keys.list

InList(x, l) == \E i \in 1..Len(l) : l[i] = x

build_columns_first_is_key(properties, primary_keys) ==
    [i \in 1..Len(properties) |->
        [name |-> properties[i].name,
         type |-> to_sql_type(properties[i].generic),
         primary_key |-> (i = 1 /\ primary_keys # <<>>)]]

build_columns(properties, primary_keys) ==
    [i \in 1..Len(properties) |->
        [name |-> properties[i].name,
         type |-> to_sql_type(properties[i].generic),
         primary_key |-> InList(properties[i].name, primary_keys)]]

DictOf(keys, primary_keys, table_path, replica_name) ==
    [k \in keys |->
        CASE k = "primary_key" -> primary_keys
          [] k = "table_path" -> table_path
          [] k = "replica_name" -> replica_name]

build_engine_args_both_or_none(primary_keys, table_path, replica_name) ==
    DictOf({"primary_key"}
             \cup (IF table_path # None /\ replica_name # None
                   THEN {"table_path", "replica_name"} ELSE {}),
           primary_keys, table_path, replica_name)

build_engine_args(primary_keys, table_path, replica_name) ==
    DictOf({"primary_key"}
             \cup (IF table_path # None THEN {"table_path"} ELSE {})
             \cup (IF replica_name # None THEN {"replica_name"} ELSE {}),
           primary_keys, table_path, replica_name)

build_table_args(cluster_name) ==
    IF cluster_name # None THEN [clickhouse_cluster |-> cluster_name] ELSE <<>>

NoTable == [built |-> FALSE]

\* Table(table_name, meta, *columns, table_engine, **table_args), with
\* table_engine = engine_class(**engine_args).  What the constructor (clickhouse_sqlalchemy)
\* makes of the arguments is not the connector's code: the Table records the
\* constructor and the arguments it was called with.
Table(table_name, columns, engine_class, engine_args, table_args) ==
    [built |-> TRUE,
     name |-> table_name,
     columns |-> columns,
     engine |-> [cls |-> engine_class, args |-> engine_args],
     table_args |-> table_args]

\* How a call ends: the exception raised (None when it returns normally) and what
\* its message carries, the Table it built, the existence checks and the statements sent to the database
\* in order, and the tables of the database afterwards.
Outcome(error, detail, table, probes, executed, db) ==
    [error |-> error, detail |-> detail, table |-> table, probes |-> probes,
     executed |-> executed, tables |-> db]

NoDetail == [msg |-> ""]

CreateStatement(table) == [kind |-> "CREATE TABLE", table |-> table]

\* The database runs a CREATE TABLE: a table of that name must not exist, and the
\* server may reject the statement for reasons of its own.
Execute(table, probes, db, server_ok) ==
    IF table.name \in db
    THEN Outcome("already exists", NoDetail, table, probes, <<CreateStatement(table)>>, db)
    ELSE IF ~server_ok
    THEN Outcome("DatabaseError", NoDetail, table, probes, <<CreateStatement(table)>>, db)
    ELSE Outcome(None, NoDetail, table, probes, <<CreateStatement(table)>>,
                 db \cup {table.name})

create_all_no_checkfirst(table, db, server_ok) ==
    Execute(table, <<>>, db, server_ok)

\* meta.create_all(self._engine): checkfirst is left at its default, True, so the
\* table is looked up first and CREATE is issued only when it is not there.
create_all(table, db, server_ok) ==
    IF table.name \in db
    THEN Outcome(None, NoDetail, table, <<table.name>>, <<>>, db)
    ELSE Execute(table, <<table.name>>, db, server_ok)

Raise(error, detail, db) == Outcome(error, detail, NoTable, <<>>, <<>>, db)

\* f"Schema for '{full_table_name}' does not define properties: {schema}"
NoPropertiesMsg(a) == [full_table_name |-> a.full_table_name, schema |-> a.schema]

\* f"Unsupported engine type: {engine_type}"
UnsupportedEngineMsg(a) == [engine_type |-> a.engine_type]

TempTableMsg == [msg |-> "Temporary tables are not supported."]

\* Lines 127-143: engine lookup, engine and table arguments, Table, create_all.
bind_engine_and_create(a, table_name, columns, primary_keys, db, server_ok) ==
    LET engine_class == get_engine_class(a.engine_type)
    IN  IF engine_class = None
        THEN Raise("ValueError", UnsupportedEngineMsg(a), db)
        ELSE create_all(
                Table(table_name, columns, engine_class,
                      build_engine_args(primary_keys, a.table_path, a.replica_name),
                      build_table_args(a.cluster_name)),
                db, server_ok)

build_table_engine_first(cfg_table_name, a, db, server_ok) ==
    LET table_name == effective_table_name(cfg_table_name, a.full_table_name)
        primary_keys == effective_primary_keys(a.primary_keys)
    IN  IF get_engine_class(a.engine_type) = None
        THEN Raise("ValueError", UnsupportedEngineMsg(a), db)
        ELSE IF ~a.schema.has_properties
        THEN Raise("RuntimeError", NoPropertiesMsg(a), db)
        ELSE bind_engine_and_create(
                a, table_name, build_columns(a.schema.properties, primary_keys),
                primary_keys, db, server_ok)

\* Lines 100-143: what create_empty_table does once the temporary flag is passed.
build_table(cfg_table_name, a, db, server_ok) ==
    LET table_name == effective_table_name(cfg_table_name, a.full_table_name)
        primary_keys == effective_primary_keys(a.primary_keys)
    IN  IF ~a.schema.has_properties
        THEN Raise("RuntimeError", NoPropertiesMsg(a), db)
        ELSE bind_engine_and_create(
                a, table_name, build_columns(a.schema.properties, primary_keys),
                primary_keys, db, server_ok)

create_empty_table_temp_unchecked(cfg_table_name, a, db, server_ok) ==
    build_table(cfg_table_name, a, db, server_ok)

create_empty_table(cfg_table_name, a, db, server_ok) ==
    IF a.as_temp_table
    THEN Raise("NotImplementedError", TempTableMsg, db)
    ELSE build_table(cfg_table_name, a, db, server_ok)

(***************************************************************************)
(* connectors.py: get_column_alter_ddl                                     *)
(***************************************************************************)
Lit(s) == [key |-> FALSE, text |-> s]
Key(k) == [key |-> TRUE, text |-> k]

\* "ALTER TABLE %(table_name)s MODIFY COLUMN %(column_name)s %(column_type)s"
AlterTemplate ==
    << Lit("ALTER TABLE "), Key("table_name"), Lit(" MODIFY COLUMN "),
       Key("column_name"), Lit(" "), Key("column_type") >>

get_column_alter_ddl_swapped(table_name, column_name, column_type) ==
    [statement |-> AlterTemplate,
     context |-> [table_name |-> column_name,
                  column_name |-> table_name,
                  column_type |-> column_type]]

\* sqlalchemy.DDL(statement, context)
get_column_alter_ddl(table_name, column_name, column_type) ==
    [statement |-> AlterTemplate,
     context |-> [table_name |-> table_name,
                  column_name |-> column_name,
                  column_type |-> column_type]]

\* The text of a DDL element: statement % context.
RECURSIVE Format(_, _)
Format(template, context) ==
    IF template = <<>> THEN ""
    ELSE LET seg == Head(template)
         IN  (IF seg.key THEN context[seg.text] ELSE seg.text)
                 \o Format(Tail(template), context)

(***************************************************************************)
(* The connector and its caller                                            *)
(***************************************************************************)
NoCall == [op |-> "none"]
NoRet == [op |-> "none"]

CreateArgs ==
    [full_table_name : FullTableNames,
     schema : Schemas,
     primary_keys : PrimaryKeyArgs,
     as_temp_table : BOOLEAN,
     engine_type : EngineTypes,
     table_path : TablePaths,
     replica_name : ReplicaNames,
     cluster_name : ClusterNames]

Init ==
    /\ config \in ConfigTableNames
    /\ tables = {}
    /\ pc = "idle"
    /\ call = NoCall
    /\ ret = NoRet

\* One call of create_empty_table, from entry to return or raise; server_ok is
\* whether the server accepts a CREATE TABLE that reaches it.
CreateEmptyTable ==
    /\ pc = "idle"
    /\ \E a \in CreateArgs, server_ok \in BOOLEAN :
          LET out == create_empty_table(config, a, tables, server_ok)
          IN  /\ call' = [op |-> "create_empty_table", args |-> a, tables_before |-> tables]
              /\ ret' = [op |-> "create_empty_table"] @@ out
              /\ tables' = out.tables
    /\ pc' = "returned"
    /\ UNCHANGED config

\* One call of the static method get_column_alter_ddl.
GetColumnAlterDdl ==
    /\ pc = "idle"
    /\ \E t \in AlterTableNames, c \in AlterColumnNames, ty \in AlterColumnTypes :
          /\ call' = [op |-> "get_column_alter_ddl",
                      args |-> [table_name |-> t, column_name |-> c, column_type |-> ty],
                      tables_before |-> tables]
          /\ ret' = [op |-> "get_column_alter_ddl",
                     ddl |-> get_column_alter_ddl(t, c, ty),
                     probes |-> <<>>,
                     executed |-> <<>>]
    /\ pc' = "returned"
    /\ UNCHANGED <<config, tables>>

\* The caller takes the result (or the exception) and is ready to call again.
Return ==
    /\ pc = "returned"
    /\ pc' = "idle"
    /\ call' = NoCall
    /\ ret' = NoRet
    /\ UNCHANGED <<config, tables>>

Next == CreateEmptyTable \/ GetColumnAlterDdl \/ Return

Spec == Init /\ [][Next]_vars

(***************************************************************************)
(* Properties                                                              *)
(***************************************************************************)
Created == pc = "returned" /\ call.op = "create_empty_table"
Altered == pc = "returned" /\ call.op = "get_column_alter_ddl"

\* The call touched nothing: no Table was built, the database was neither asked
\* about a table nor sent a statement, and its tables are the ones before the call.
NothingDone ==
    /\ ~ret.table.built
    /\ ret.probes = <<>>
    /\ ret.executed = <<>>
    /\ tables = call.tables_before

\* The names engine_class.py registers, written out.
SupportedEngineNames ==
    {"MergeTree", "ReplacingMergeTree", "SummingMergeTree", "CollapsingMergeTree",
     "VersionedCollapsingMergeTree", "AggregatingMergeTree", "GraphiteMergeTree",
     "ReplicatedMergeTree", "ReplicatedSummingMergeTree",
     "ReplicatedCollapsingMergeTree", "ReplicatedReplacingMergeTree",
     "ReplicatedAggregatingMergeTree", "ReplicatedVersionedCollapsingMergeTree"}

\* C1: a create_empty_table call with as_temp_table set raises
\* NotImplementedError, whatever the other arguments and the configuration are,
\* and the database is not invoked during the call.
C1_TempTableRejected ==
    (Created /\ call.args.as_temp_table)
        => /\ ret.error = "NotImplementedError"
           /\ NothingDone

\* A temporary-table call whose other arguments would each fail on their own.
C1_Witness ==
    /\ Created
    /\ call.args.as_temp_table
    /\ call.args.engine_type = "mergetree"
    /\ ~call.args.schema.has_properties
    /\ config = "pinned"
    /\ ret.error = "NotImplementedError"

\* C2 as stated: every registered name resolves to a constructor, every other
\* name to None, and a create_empty_table call with an unregistered name raises
\* the unsupported-engine error (ValueError) with nothing built or executed.
C2_UnknownEngineAlwaysValueError ==
    /\ \A e \in EngineTypes :
          /\ e \in SupportedEngineNames => get_engine_class(e) # None
          /\ e \notin SupportedEngineNames => get_engine_class(e) = None
    /\ (Created /\ call.args.engine_type \notin SupportedEngineNames)
          => /\ ret.error = "ValueError"
             /\ NothingDone

\* C2, amended: every registered name resolves to its constructor and every other
\* name to None; a create_empty_table call with an unregistered name always fails
\* with nothing built or executed, and the error is the unsupported-engine error
\* when the temporary flag is clear and the schema has properties, the
\* unsupported-capability error when the flag is set, and the malformed-schema
\* error when the flag is clear and the schema has no properties.  A call with a
\* registered name that gets as far as the engine binds that name's constructor.
C2_UnknownEngineFailsBeforeDdl ==
    /\ \A e \in EngineTypes :
          /\ e \in SupportedEngineNames => get_engine_class(e) = "engines." \o e
          /\ e \notin SupportedEngineNames => get_engine_class(e) = None
    /\ (Created /\ call.args.engine_type \notin SupportedEngineNames)
          => /\ NothingDone
             /\ ret.error =
                   (IF call.args.as_temp_table THEN "NotImplementedError"
                    ELSE IF ~call.args.schema.has_properties THEN "RuntimeError"
                    ELSE "ValueError")
             /\ ret.error = "ValueError" => ret.detail = [engine_type |-> call.args.engine_type]
    /\ (Created /\ ret.table.built)
          => /\ call.args.engine_type \in SupportedEngineNames
             /\ ret.table.engine.cls = "engines." \o call.args.engine_type

\* A different-case spelling of a registered name, in a call that reaches the
\* engine lookup, is refused.
C2_Witness ==
    /\ Created
    /\ call.args.engine_type = "mergetree"
    /\ ~call.args.as_temp_table
    /\ Len(call.args.schema.properties) = 2
    /\ ret.error = "ValueError"
    /\ ~ret.table.built

\* C4: the Table that create_empty_table builds has one column per property, in
\* the order of the properties, and a column is a primary key exactly when its
\* name is in the primary-key list (none is when the list is absent).
C4_ColumnsFollowProperties ==
    (Created /\ ret.table.built)
        => LET props == call.args.schema.properties
               cols == ret.table.columns
               keys == IF call.args.primary_keys.is_none THEN {}
                       ELSE {call.args.primary_keys.list[i] :
                                i \in 1..Len(call.args.primary_keys.list)}
           IN  /\ Len(cols) = Len(props)
               /\ \A i \in 1..Len(props) :
                     /\ cols[i].name = props[i].name
                     /\ cols[i].primary_key <=> (props[i].name \in keys)
               /\ \A i \in 1..Len(ret.executed) : ret.executed[i].table.columns = cols

\* Properties name, id with primary key id: the second column is the key, and
\* the CREATE statement went out.
C4_Witness ==
    /\ Created
    /\ ret.table.built
    /\ call.args.primary_keys = PyList(<<"id">>)
    /\ Len(ret.table.columns) = 2
    /\ ret.table.columns[1].name = "name" /\ ~ret.table.columns[1].primary_key
    /\ ret.table.columns[2].name = "id" /\ ret.table.columns[2].primary_key
    /\ Len(ret.executed) = 1

\* C5: the Table that create_empty_table builds is named by the configured
\* table_name when one is configured (a non-empty string), whatever
\* full_table_name is, and by the last part of full_table_name otherwise; a
\* successful CREATE adds a table of exactly that name.
C5_TableNameOverride ==
    (Created /\ ret.table.built)
        => LET full == call.args.full_table_name
           IN  /\ (config # None /\ config # "") => ret.table.name = config
               /\ (config = None \/ config = "") => ret.table.name = full[Len(full)]
               /\ (ret.executed # <<>> /\ ret.error = None)
                     => tables = call.tables_before \cup {ret.table.name}

\* With the override "pinned", a call for db.users creates the table pinned.
C5_Witness ==
    /\ Created
    /\ config = "pinned"
    /\ call.args.full_table_name = <<"db", "users">>
    /\ ret.table.built
    /\ ret.table.name = "pinned"
    /\ ret.error = None
    /\ tables = {"pinned"}

\* C6: a property the generic mapper maps to sqlalchemy.types.DECIMAL gets a
\* FLOAT column, so no column has the type DECIMAL; every other generic result,
\* a subclass of DECIMAL included, is the column's type unchanged.
C6_DecimalBecomesFloat ==
    (Created /\ ret.table.built)
        => \A i \in 1..Len(ret.table.columns) :
              LET generic == call.args.schema.properties[i].generic
                  type == ret.table.columns[i].type
              IN  /\ generic = "DECIMAL" => type = "FLOAT"
                  /\ generic # "DECIMAL" => type = generic
                  /\ type # "DECIMAL"

\* A schema with a DECIMAL property and one of a subclass of DECIMAL.
C6_Witness ==
    /\ Created
    /\ ret.table.built
    /\ Len(ret.table.columns) = 2
    /\ call.args.schema.properties[1].generic = "DECIMAL"
    /\ call.args.schema.properties[2].generic = "mysql.DECIMAL"
    /\ ret.table.columns[1].type = "FLOAT"
    /\ ret.table.columns[2].type = "mysql.DECIMAL"
    /\ Len(ret.executed) = 1

\* C7: the DDL that get_column_alter_ddl(t, c, ty) returns reads
\* "ALTER TABLE t MODIFY COLUMN c ty" with the three inputs as given, and the
\* call sends nothing to the database and leaves its tables alone.
C7_AlterDdlText ==
    Altered
        => LET a == call.args
               text == Format(ret.ddl.statement, ret.ddl.context)
           IN  /\ text = "ALTER TABLE " \o a.table_name \o " MODIFY COLUMN "
                            \o a.column_name \o " " \o a.column_type
               /\ (a.table_name = "t" /\ a.column_name = "c" /\ a.column_type = "Float64")
                     => text = "ALTER TABLE t MODIFY COLUMN c Float64"
               /\ (a.table_name = "my table" /\ a.column_name = "a-b"
                        /\ a.column_type = "FLOAT")
                     => text = "ALTER TABLE my table MODIFY COLUMN a-b FLOAT"
               /\ ret.probes = <<>>
               /\ ret.executed = <<>>
               /\ tables = call.tables_before

\* The documented example, asked of a connector whose database already has a table.
C7_Witness ==
    /\ Altered
    /\ call.args = [table_name |-> "t", column_name |-> "c", column_type |-> "Float64"]
    /\ Format(ret.ddl.statement, ret.ddl.context) = "ALTER TABLE t MODIFY COLUMN c Float64"
    /\ tables # {}

C9_NoPropertiesRejected ==
    (Created /\ ~call.args.as_temp_table /\ ~call.args.schema.has_properties)
        => /\ ret.error = "RuntimeError"
           /\ ret.detail = [full_table_name |-> call.args.full_table_name,
                            schema |-> call.args.schema]
           /\ NothingDone

\* A schema without properties together with an unregistered engine name.
C9_Witness ==
    /\ Created
    /\ ~call.args.as_temp_table
    /\ ~call.args.schema.has_properties
    /\ call.args.engine_type = "Log"
    /\ ret.error = "RuntimeError"

\* C10: the engine of the Table that create_empty_table builds is constructed
\* with primary_key always, equal to the given list or the empty list when none
\* was given; with table_path exactly when table_path is not None; with
\* replica_name exactly when replica_name is not None; and with nothing else, so a
\* None is never passed.
C10_EngineArgs ==
    (Created /\ ret.table.built)
        => LET a == call.args
               ea == ret.table.engine.args
           IN  /\ "primary_key" \in DOMAIN ea
               /\ ea["primary_key"] =
                     (IF a.primary_keys.is_none THEN <<>> ELSE a.primary_keys.list)
               /\ ("table_path" \in DOMAIN ea) <=> (a.table_path # None)
               /\ ("replica_name" \in DOMAIN ea) <=> (a.replica_name # None)
               /\ "table_path" \in DOMAIN ea => ea["table_path"] = a.table_path
               /\ "replica_name" \in DOMAIN ea => ea["replica_name"] = a.replica_name
               /\ DOMAIN ea \subseteq {"primary_key", "table_path", "replica_name"}

\* A coordination path without a replica name and without primary keys.
C10_Witness ==
    /\ Created
    /\ ret.table.built
    /\ call.args.primary_keys.is_none
    /\ call.args.table_path # None
    /\ call.args.replica_name = None
    /\ DOMAIN ret.table.engine.args = {"primary_key", "table_path"}
    /\ ret.table.engine.args["primary_key"] = <<>>

====
